---- MODULE Spec2Model ----
(***************************************************************************)
(* Order checkout, inventory and order lifecycle of the beakling           *)
(* marketplace (Django/DRF, apps/orders).                                  *)
(*                                                                         *)
(* Every HTTP request is served by its own worker.  A request is modelled  *)
(* as a slot r \in Reqs that walks through the database statements of its  *)
(* handler; steps of different slots interleave.  Django runs in           *)
(* autocommit mode (no ATOMIC_REQUESTS): a statement outside               *)
(* transaction.atomic is committed at once; the statements inside          *)
(* OrderCreateSerializer.create are collected in tx[r] and become visible  *)
(* together at commit, or never (rollback).  Isolation is READ COMMITTED   *)
(* with row locks: an UPDATE of a product row waits while another open     *)
(* transaction has written that row.                                       *)
(***************************************************************************)
EXTENDS Integers, Sequences, FiniteSets, TLC

(* ------------------------------ bounds --------------------------------- *)
MaxInv == 1        \* initial inventory of a product is in 0..MaxInv
MaxQty == 1        \* quantity of a cart line (and of one add-to-cart) is at most MaxQty
MaxOrders == 2     \* order ids handed out by the orders table's sequence
MaxNotes == 1      \* cancellations accepted per order (length of the notes log)
MaxClock == 3      \* readings of timezone.now()
MaxAmountQty == 3  \* quantity of a cart line where the amounts are followed
MaxCartQty == 3    \* quantity a cart line may reach where the carts are followed

Reqs == {1, 2}
Users == {"u1", "u2"}

\* the requests of one user follow one another on that user's worker; the
\* requests of different users run concurrently
UserOf == [r \in Reqs |-> IF r = 1 THEN "u1" ELSE "u2"]
Products == {"A", "B"}
Reasons == {"Customer request"}
TrackingNumbers == {"", "TRACK1"}
OrderIds == 1..MaxOrders
LifecycleOrders == {1}   \* the orders SpecLifecycle follows through their statuses

Vendors == {"v1", "v2"}

\* catalog/models.py Product.vendor: the vendor that sells each product
VendorOf == [p \in Products |-> IF p = "A" THEN "v1" ELSE "v2"]

\* common/utils.py Constants.ORDER_STATUS_CHOICES
ORDER_STATUS_CHOICES == {"PENDING", "PAID", "SHIPPED", "DELIVERED", "CANCELLED"}

NULL == 0          \* an unset DateTimeField

VARIABLES
  inventory,    \* Product.inventory, committed value per product
  carts,        \* users that have a Cart row
  cartItems,    \* CartItem.quantity per user and product; 0: no such row,
                \* or a row in emptyLines
  orders,       \* committed Order rows, a function from order id to row
  orderItems,   \* committed OrderItem rows
  earnings,     \* committed VendorEarnings rows
  nextOrder,    \* next value of the Order id sequence
  now,          \* the clock behind timezone.now()
  pc,           \* position of each request in its handler
  mem,          \* the objects each request holds in memory
  tx,           \* the open transaction of each request: its uncommitted writes
  outcome,      \* what the last request served by a slot answered
  inventory0,   \* history: the inventory each product started with
  released,     \* history: quantity given back per product by Order.cancel
  solo,         \* history: a checkout and the inventory before it, kept only
                \* while no other operation has started since
  catalog,      \* Product.price, sale_price and vendor per product, in cents
  shipping,     \* ShippingMethod.price of the method the checkouts choose
  rounding,     \* how the database rounds a decimal to the field's 2 places
  sessionCart,  \* the Cart row of the browser session: "none", "live", or
                \* "deleted" (is_deleted set: the row is still in the table)
  sessionItems, \* CartItem.quantity per product in the session's cart; 0: no row
  emptyLines,   \* the <<user, product>> whose CartItem row holds quantity 0
  deletedLines  \* the <<user, product>> whose CartItem row has is_deleted set

vars == <<inventory, carts, cartItems, orders, orderItems, earnings, nextOrder,
          now, pc, mem, tx, outcome, inventory0, released, solo,
          catalog, shipping, rounding, sessionCart, sessionItems, emptyLines,
          deletedLines>>

db == <<inventory, carts, cartItems, orders, orderItems, earnings>>

\* what no handler of the orders app writes
config == <<catalog, shipping, rounding>>

\* the anonymous cart of the session the customer u1 uses
session == <<sessionCart, sessionItems>>

(* --------------------------- rows and objects -------------------------- *)
NoRow == [user |-> "none", status |-> "NONE", paid_at |-> NULL,
          shipped_at |-> NULL, delivered_at |-> NULL,
          tracking_number |-> "", internal_notes |-> << >>,
          subtotal |-> 0, tax_amount |-> 0, shipping_amount |-> 0,
          discount_amount |-> 0, total_amount |-> 0]

NoCur == [product |-> "none", quantity |-> 0, inventory |-> 0]

EmptyMem == [op |-> "none", user |-> "none", order |-> 0, row |-> NoRow,
             todo |-> {}, cur |-> NoCur, created |-> {}, vendors |-> {},
             new_status |-> "NONE", tracking |-> "", reason |-> "none",
             errors |-> {}, old |-> [p \in Products |-> 0]]

\* wrote: the product rows the transaction has updated (and holds locked);
\* inv: the inventory it wrote to them
NoTx == [active |-> FALSE, order |-> 0, row |-> NoRow, items |-> {},
         wrote |-> {}, inv |-> [p \in Products |-> 0]]

NoSolo == [order |-> 0, inv |-> [p \in Products |-> 0]]

\* the cart of user u has a CartItem row for product p
HasLine(u, p) == cartItems[u][p] > 0 \/ <<u, p>> \in emptyLines

\* Cart.items.all(): the lines of a user's cart
CartLines(u) ==
  {[product |-> p, quantity |-> cartItems[u][p]] : p \in {q \in Products : HasLine(u, q)}}

\* Order.items.all(): the committed items of an order
ItemsOf(o) == {i \in orderItems : i.order = o}

\* Order.vendor_earnings: the committed earnings rows of an order
EarningsOf(o) == {e \in earnings : e.order = o}

OthersIdle(r) == \A s \in Reqs \ {r} : pc[s] = "idle"

\* the open transaction, if any, that holds the row lock of product p
LockedByOther(r, p) ==
  \E s \in Reqs \ {r} : tx[s].active /\ p \in tx[s].wrote

(* ------------------------- the handlers' arithmetic -------------------- *)
C6_Mutant_InsufficientInventory(inv, qty) == inv <= qty

\* serializers.py:268  if cart_item.product.inventory < cart_item.quantity
InsufficientInventory(inv, qty) == inv < qty

C5_Mutant_Reserve(inv, qty) == inv

\* serializers.py:282  cart_item.product.inventory -= cart_item.quantity
Reserve(inv, qty) == inv - qty

C7_Mutant_Restore(inv, qty) == inv

\* models.py:175  item.product.inventory += item.quantity
Restore(inv, qty) == inv + qty

C10_Mutant_can_be_cancelled(row) == row.status \in {"PENDING", "PAID", "SHIPPED"}

\* models.py:166  self.status in [Constants.PENDING, Constants.PAID]
can_be_cancelled(row) == row.status \in {"PENDING", "PAID"}

(* ------------------------------- amounts ------------------------------- *)
\* Money is counted in cents.  A Decimal product with a rate of two decimal
\* places has four: it is counted in hundredths of a cent until a
\* DecimalField(decimal_places=2) stores it.
TaxRatePercent == 8        \* tax_rate = Decimal('0.08')
PlatformFeePercent == 5    \* gross_amount * Decimal('0.05')

\* catalog/models.py:126-129 Product.current_price: the sale price when there
\* is one (None and 0 both count as none), else the price
current_price(prod) == IF prod.sale_price # 0 THEN prod.sale_price ELSE prod.price

\* models.py:93-96 CartItem.total_price = unit_price * quantity, with
\* unit_price = product.current_price (models.py:88-91)
CartPrices(u) ==
  {[product |-> l.product,
    total_price |-> current_price(catalog[l.product]) * l.quantity] : l \in CartLines(u)}

RECURSIVE SumTotalPrice(_)
\* sum(item.total_price for item in ...): models.py:44-50 Cart.subtotal and
\* the grouping loop of views.py:345-352
SumTotalPrice(items) ==
  IF items = {} THEN 0
  ELSE LET i == CHOOSE x \in items : TRUE
       IN i.total_price + SumTotalPrice(items \ {i})

\* a value x in hundredths of a cent as a DecimalField(decimal_places=2)
\* stores it, in cents: to the nearest cent, a tie by the rule of the
\* database in use (Django's format_number quantizes half-even for SQLite,
\* MySQL and Oracle; PostgreSQL's numeric(10,2) rounds half away from zero)
Quantize(x, mode) ==
  LET q == x \div 100
      rem == x % 100
  IN IF rem > 50 THEN q + 1
     ELSE IF rem < 50 THEN q
     ELSE IF mode = "ROUND_HALF_UP" THEN q + 1
     ELSE IF q % 2 = 0 THEN q ELSE q + 1

C17_Mutant_tax_amount(subtotal) == subtotal * 10

\* serializers.py:225  tax_amount = subtotal * tax_rate, in hundredths of a cent
tax_amount(subtotal) == subtotal * TaxRatePercent

C14_Mutant_platform_fee(gross) == gross * 10

\* views.py:356  platform_fee = gross_amount * Decimal('0.05'), in hundredths
\* of a cent
platform_fee(gross) == gross * PlatformFeePercent

\* models.py:319-322 VendorEarnings.save: net_amount = gross_amount -
\* platform_fee when it is not set, from the fee as held in memory
net_amount(gross) == 100 * gross - platform_fee(gross)

\* serializers.py:222-236: the Order row that Order.objects.create inserts
\* for the cart of user u (discount_amount is not passed: its default, 0)
NewOrder(u) ==
  LET subtotal == SumTotalPrice(CartPrices(u))
      total == 100 * subtotal + tax_amount(subtotal) + 100 * shipping
  IN [user |-> u, status |-> "PENDING", paid_at |-> NULL,
      shipped_at |-> NULL, delivered_at |-> NULL,
      tracking_number |-> "", internal_notes |-> << >>,
      subtotal |-> subtotal,
      tax_amount |-> Quantize(tax_amount(subtotal), rounding),
      shipping_amount |-> shipping,
      discount_amount |-> 0,
      total_amount |-> Quantize(total, rounding)]

\* views.py:357-362 and models.py:319-322: the VendorEarnings row inserted for
\* order o and a vendor whose items sum to gross
NewEarnings(o, v, gross) ==
  [order |-> o, vendor |-> v, status |-> "pending",
   gross_amount |-> gross,
   platform_fee |-> Quantize(platform_fee(gross), rounding),
   net_amount |-> Quantize(net_amount(gross), rounding)]

C16_Mutant_UniqueTogether(rows, o, v) == TRUE

\* models.py:313-314  unique_together = ['vendor', 'order']: the table takes
\* a row for order o and vendor v only when it holds none for that pair
UniqueTogether(rows, o, v) == ~\E e \in rows : e.order = o /\ e.vendor = v

(* ------------------------------- Init ---------------------------------- *)
\* the shop before the first order: products in stock or sold out, carts
\* filled earlier (a line may ask for more than is in stock by now: stock is
\* checked when the line is added, and changes afterwards)
Init ==
  /\ inventory \in [Products -> 0..MaxInv]
  /\ inventory0 = inventory
  /\ cartItems \in [Users -> [Products -> 0..MaxQty]]
  /\ carts \in SUBSET Users
  /\ \A u \in Users : (\E p \in Products : cartItems[u][p] > 0) => u \in carts
  /\ orders = << >>
  /\ orderItems = {}
  /\ earnings = {}
  /\ nextOrder = 1
  /\ now = 0
  /\ pc = [r \in Reqs |-> "idle"]
  /\ mem = [r \in Reqs |-> EmptyMem]
  /\ tx = [r \in Reqs |-> NoTx]
  /\ outcome = [r \in Reqs |-> "none"]
  /\ released = [p \in Products |-> 0]
  /\ solo = NoSolo
  /\ catalog = [p \in Products |->
                  [price |-> IF p = "A" THEN 1000 ELSE 2000, sale_price |-> NULL,
                   vendor |-> VendorOf[p]]]
  /\ shipping = 500
  /\ rounding = "ROUND_HALF_EVEN"
  /\ sessionCart = "none"
  /\ sessionItems = [p \in Products |-> 0]
  /\ emptyLines = {}
  /\ deletedLines = {}

(* ---------------------- a request ends and answers --------------------- *)
\* the handler returns or raises: the answer is known, the response not yet
\* sent; m is what the request still holds in memory
Finish(r, answer, m) ==
  /\ pc' = [pc EXCEPT ![r] = "respond"]
  /\ outcome' = [outcome EXCEPT ![r] = answer]
  /\ mem' = [mem EXCEPT ![r] = m]

\* the response is sent and the worker is free for the next request
Respond(r) ==
  /\ pc[r] = "respond"
  /\ pc' = [pc EXCEPT ![r] = "idle"]
  /\ mem' = [mem EXCEPT ![r] = EmptyMem]
  /\ outcome' = [outcome EXCEPT ![r] = "none"]
  /\ UNCHANGED <<inventory, carts, cartItems, orders, orderItems, earnings,
                 nextOrder, now, tx, inventory0, config, session, emptyLines,
                 deletedLines, released, solo>>

(* ------------------------------ add to cart ---------------------------- *)
C19_Mutant_AddedQuantity(exists, old, q, inv) == old + q

\* views.py:116-126: the quantity of the cart's line for a product after q is
\* added; exists: the cart has a line for it, holding old; inv: the
\* product's inventory as read then
AddedQuantity(exists, old, q, inv) ==
  IF exists
  THEN (IF old + q > inv THEN inv ELSE old + q)
  ELSE q

\* views.py CartItemListView.perform_create, behind CartItemSerializer's
\* validate_product_id and validate_quantity
AddItem(u, p, q) ==
  /\ inventory[p] >= 1                    \* else "Product is out of stock."
  /\ q >= 1 /\ q <= inventory[p]          \* else "Only n items available in stock."
  /\ carts' = carts \cup {u}              \* get_or_create_cart
  /\ cartItems' = [cartItems EXCEPT ![u][p] =
                     AddedQuantity(HasLine(u, p), @, q, inventory[p])]
  /\ emptyLines' = emptyLines \ {<<u, p>>}
  /\ solo' = NoSolo
  /\ UNCHANGED <<inventory, orders, orderItems, earnings, nextOrder, now,
                 pc, mem, tx, outcome, inventory0, config, session, released,
                 deletedLines>>

\* the customer who uses the browser session that owns the session cart
SessionUser == "u1"

\* values a caller may send as "session_key"
SessionKeys == {"", "s1"}

\* views.py:22-27: get_or_create_cart merges when the user's cart was not
\* created by this call and the session's key finds a cart; the lookup does
\* not look at is_deleted
AutoMerges(u) == u = SessionUser /\ u \in carts /\ sessionCart # "none"

\* views.py:29-37: the user's lines after get_or_create_cart: a session line
\* is created in the user's cart with its quantity, or added to the line that
\* is there
CartAfterAccess(u) ==
  IF AutoMerges(u)
  THEN [p \in Products |-> cartItems[u][p] + sessionItems[p]]
  ELSE cartItems[u]

\* the rows of quantity 0 after get_or_create_cart
EmptyAfterAccess(u) ==
  IF AutoMerges(u)
  THEN emptyLines \ {<<u, p>> : p \in {x \in Products : sessionItems[x] > 0}}
  ELSE emptyLines

\* views.py:40 and common/models.py:22-26: session_cart.delete() sets
\* is_deleted and saves the row
SessionAfterAccess(u) == IF AutoMerges(u) THEN "deleted" ELSE sessionCart

\* views.py:213-224 merge_cart: a session line is created in the user's cart
\* with its quantity, or added to the line that is there and then cut to
\* the product's inventory
CartAfterMerge(u) ==
  [p \in Products |->
     IF sessionItems[p] = 0 THEN cartItems[u][p]
     ELSE IF ~HasLine(u, p) THEN sessionItems[p]
     ELSE IF cartItems[u][p] + sessionItems[p] > inventory[p] THEN inventory[p]
     ELSE cartItems[u][p] + sessionItems[p]]

\* POST /cart/items/: CartItemSerializer's validate_product_id and
\* validate_quantity (serializers.py:30-57), both run, then
\* CartItemListView.perform_create (views.py:109-126)
PostCartItem(r, u, p, q) ==
  /\ pc[r] = "idle"
  /\ solo' = NoSolo
  /\ LET errors == (IF inventory[p] < 1 THEN {"product_id"} ELSE {})
                     \cup (IF q < 1 \/ q > inventory[p] THEN {"quantity"} ELSE {})
         cart == CartAfterAccess(u)
         m == [EmptyMem EXCEPT !.op = "add_item", !.user = u,
                 !.cur = [product |-> p, quantity |-> q, inventory |-> inventory[p]]]
     IN IF errors # {}
        THEN /\ Finish(r, "ValidationError", [m EXCEPT !.errors = errors])
             /\ UNCHANGED <<carts, cartItems, session, emptyLines>>
        ELSE /\ \A x \in Products : cart[x] <= MaxCartQty
             /\ carts' = carts \cup {u}
             /\ cartItems' = [cartItems EXCEPT ![u] = [cart EXCEPT ![p] =
                   AddedQuantity(HasLine(u, p) \/ cart[p] > 0, @, q, inventory[p])]]
             /\ emptyLines' = EmptyAfterAccess(u) \ {<<u, p>>}
             /\ sessionCart' = SessionAfterAccess(u)
             /\ UNCHANGED sessionItems
             /\ Finish(r, "ItemAdded", [m EXCEPT !.old = cart])
  /\ UNCHANGED <<inventory, orders, orderItems, earnings, nextOrder, now, tx,
                 inventory0, config, released, deletedLines>>

\* GET /cart/: views.py:65-71 CartView.get_object is get_or_create_cart
\* (views.py:20-52)
GetCart(r, u) ==
  /\ pc[r] = "idle"
  /\ solo' = NoSolo
  /\ \A x \in Products : CartAfterAccess(u)[x] <= MaxCartQty
  /\ carts' = carts \cup {u}
  /\ cartItems' = [cartItems EXCEPT ![u] = CartAfterAccess(u)]
  /\ emptyLines' = EmptyAfterAccess(u)
  /\ sessionCart' = SessionAfterAccess(u)
  /\ UNCHANGED sessionItems
  /\ Finish(r, IF AutoMerges(u) THEN "CartMerged" ELSE "Cart",
            [EmptyMem EXCEPT !.op = "get_cart", !.user = u, !.old = cartItems[u]])
  /\ UNCHANGED <<inventory, orders, orderItems, earnings, nextOrder, now, tx,
                 inventory0, config, released, deletedLines>>

\* PATCH or PUT /cart/items/<id>/: views.py:165-172 CartItemDetailView finds
\* the item among get_or_create_cart(request).items.all(), 404 when it is not
\* there; CartItemSerializer validates (serializers.py:30-57) and the
\* quantity is saved.  put: the body carries the item's product_id beside
\* the quantity, as PUT must; without it validate_quantity has no product
\* to compare the stock with.
SetQuantity(r, u, p, q, put) ==
  /\ pc[r] = "idle"
  /\ solo' = NoSolo
  /\ \A x \in Products : CartAfterAccess(u)[x] <= MaxCartQty
  /\ carts' = carts \cup {u}
  /\ sessionCart' = SessionAfterAccess(u)
  /\ UNCHANGED sessionItems
  /\ LET cart == CartAfterAccess(u)
         empty == EmptyAfterAccess(u)
         errors == (IF put /\ inventory[p] < 1 THEN {"product_id"} ELSE {})
                     \cup (IF q < 1 \/ (put /\ q > inventory[p])
                           THEN {"quantity"} ELSE {})
         m == [EmptyMem EXCEPT !.op = "set_quantity", !.user = u,
                 !.cur = [product |-> p, quantity |-> q, inventory |-> inventory[p]],
                 !.old = cartItems[u]]
     IN IF ~(cart[p] > 0 \/ <<u, p>> \in empty)
        THEN /\ Finish(r, "NotFound", m)
             /\ cartItems' = [cartItems EXCEPT ![u] = cart]
             /\ emptyLines' = empty
        ELSE IF errors # {}
        THEN /\ Finish(r, "ValidationError", [m EXCEPT !.errors = errors])
             /\ cartItems' = [cartItems EXCEPT ![u] = cart]
             /\ emptyLines' = empty
        ELSE /\ q <= MaxCartQty
             /\ Finish(r, "QuantitySet", m)
             /\ cartItems' = [cartItems EXCEPT ![u] = [cart EXCEPT ![p] = q]]
             /\ emptyLines' = empty \ {<<u, p>>}
  /\ UNCHANGED <<inventory, orders, orderItems, earnings, nextOrder, now, tx,
                 inventory0, config, released, deletedLines>>

\* DELETE /cart/items/<id>/: views.py:165-172 CartItemDetailView finds the
\* item as above and calls its delete(), which for a BaseModel sets
\* is_deleted and saves the row (common/models.py:22-26)
RemoveCartItem(r, u, p) ==
  /\ pc[r] = "idle"
  /\ solo' = NoSolo
  /\ \A x \in Products : CartAfterAccess(u)[x] <= MaxCartQty
  /\ carts' = carts \cup {u}
  /\ cartItems' = [cartItems EXCEPT ![u] = CartAfterAccess(u)]
  /\ emptyLines' = EmptyAfterAccess(u)
  /\ sessionCart' = SessionAfterAccess(u)
  /\ UNCHANGED sessionItems
  /\ LET m == [EmptyMem EXCEPT !.op = "remove_item", !.user = u,
                 !.cur = [product |-> p, quantity |-> CartAfterAccess(u)[p],
                          inventory |-> inventory[p]],
                 !.old = cartItems[u]]
     IN IF ~(CartAfterAccess(u)[p] > 0 \/ <<u, p>> \in EmptyAfterAccess(u))
        THEN /\ Finish(r, "NotFound", m)
             /\ UNCHANGED deletedLines
        ELSE /\ Finish(r, "Removed", m)
             /\ deletedLines' = deletedLines \cup {<<u, p>>}
  /\ UNCHANGED <<inventory, orders, orderItems, earnings, nextOrder, now, tx,
                 inventory0, config, released>>

\* POST /cart/merge/: views.py:196-234 merge_cart
MergeCart(r, u, key) ==
  /\ pc[r] = "idle"
  /\ solo' = NoSolo
  /\ LET m == [EmptyMem EXCEPT !.op = "merge_cart", !.user = u,
                               !.old = cartItems[u]] IN
     IF key = ""
     THEN /\ Finish(r, "NoSessionCart", m)
          /\ UNCHANGED <<carts, cartItems, session, emptyLines>>
     ELSE IF sessionCart = "none"
     THEN /\ Finish(r, "SessionCartNotFound", m)
          /\ UNCHANGED <<carts, cartItems, session, emptyLines>>
     ELSE /\ \A x \in Products : CartAfterMerge(u)[x] <= MaxCartQty
          /\ carts' = carts \cup {u}
          /\ cartItems' = [cartItems EXCEPT ![u] = CartAfterMerge(u)]
          /\ emptyLines' =
                (emptyLines \ {<<u, p>> : p \in {x \in Products : sessionItems[x] > 0}})
                  \cup {<<u, p>> : p \in {x \in Products :
                           sessionItems[x] > 0 /\ CartAfterMerge(u)[x] = 0}}
          /\ sessionCart' = "deleted"
          /\ UNCHANGED sessionItems
          /\ Finish(r, "Merged", m)
  /\ UNCHANGED <<inventory, orders, orderItems, earnings, nextOrder, now, tx,
                 inventory0, config, released, deletedLines>>

(* -------------------------------- checkout ----------------------------- *)
C4_Mutant_Rollback(r) ==
  /\ tx' = [tx EXCEPT ![r] = NoTx]
  /\ orders' = (tx[r].order :> tx[r].row) @@ orders
  /\ orderItems' = orderItems \cup tx[r].items
  /\ inventory' = [p \in Products |-> IF p \in tx[r].wrote
                                       THEN tx[r].inv[p] ELSE inventory[p]]
  /\ UNCHANGED <<carts, cartItems, earnings>>

\* transaction.atomic leaving OrderCreateSerializer.create by an exception:
\* nothing the transaction wrote reaches the tables
Rollback(r) ==
  /\ tx' = [tx EXCEPT ![r] = NoTx]
  /\ UNCHANGED <<inventory, carts, cartItems, orders, orderItems, earnings>>

\* POST /orders/: OrderCreateView.create calls serializer.save(), which enters
\* the transaction, reads the cart (serializers.py:213-220) and inserts the
\* Order row (serializers.py:230-263)
CheckoutBegin(r, u) ==
  /\ pc[r] = "idle"
  /\ solo' = IF OthersIdle(r) /\ u \in carts /\ CartLines(u) # {}
             THEN [order |-> nextOrder, inv |-> inventory] ELSE NoSolo
  /\ IF u \notin carts \/ CartLines(u) = {}
     THEN /\ Finish(r, "EmptyCart", [EmptyMem EXCEPT !.op = "checkout", !.user = u])
          /\ UNCHANGED <<tx, nextOrder>>
     ELSE /\ nextOrder <= MaxOrders
          /\ pc' = [pc EXCEPT ![r] = "fetch_items"]
          /\ mem' = [mem EXCEPT ![r] = [EmptyMem EXCEPT !.op = "checkout",
                                           !.user = u, !.order = nextOrder]]
          /\ tx' = [tx EXCEPT ![r] = [NoTx EXCEPT !.active = TRUE,
                                         !.order = nextOrder, !.row = NewOrder(u)]]
          /\ nextOrder' = nextOrder + 1
          /\ UNCHANGED outcome
  /\ UNCHANGED <<inventory, carts, cartItems, orders, orderItems, earnings, now,
                 inventory0, config, session, emptyLines, deletedLines, released>>

\* serializers.py:266  for cart_item in cart.items.all(): the query runs once
CheckoutFetchItems(r) ==
  /\ pc[r] = "fetch_items"
  /\ mem' = [mem EXCEPT ![r].todo = CartLines(mem[r].user)]
  /\ pc' = [pc EXCEPT ![r] = IF CartLines(mem[r].user) = {}
                              THEN "clear_cart" ELSE "check_line"]
  /\ UNCHANGED <<inventory, carts, cartItems, orders, orderItems, earnings,
                 nextOrder, now, tx, outcome, inventory0, config, session,
                 emptyLines, deletedLines, released, solo>>

\* serializers.py:267-279: cart_item.product is loaded from the table, its
\* inventory is compared with the line's quantity, the OrderItem is inserted.
\* The cart's lines carry no ordering: any line may come next.
CheckoutCheckLine(r, line) ==
  /\ pc[r] = "check_line"
  /\ line \in mem[r].todo
  /\ LET inv == inventory[line.product] IN
     IF InsufficientInventory(inv, line.quantity)
     THEN /\ Finish(r, "InsufficientInventory",
                    [mem[r] EXCEPT !.cur = [product |-> line.product,
                       quantity |-> line.quantity, inventory |-> inv]])
          /\ Rollback(r)
     ELSE /\ pc' = [pc EXCEPT ![r] = "save_product"]
          /\ mem' = [mem EXCEPT ![r].cur = [product |-> line.product,
                        quantity |-> line.quantity, inventory |-> inv],
                                ![r].created = @ \cup {[product |-> line.product,
                        quantity |-> line.quantity, inventory |-> inv]}]
          /\ tx' = [tx EXCEPT ![r].items = @ \cup
                        {[order |-> mem[r].order, product |-> line.product,
                          quantity |-> line.quantity,
                          vendor |-> catalog[line.product].vendor,
                          unit_price |-> current_price(catalog[line.product]),
                          total_price |-> current_price(catalog[line.product])
                                            * line.quantity]}]
          /\ UNCHANGED <<inventory, carts, cartItems, orders, orderItems,
                         earnings, outcome>>
  /\ UNCHANGED <<nextOrder, now, inventory0, config, session, emptyLines,
                 deletedLines, released, solo>>

\* serializers.py:281-283: the inventory held in memory is decremented and
\* written back; the UPDATE waits for the row lock
CheckoutSaveProduct(r) ==
  /\ pc[r] = "save_product"
  /\ ~LockedByOther(r, mem[r].cur.product)
  /\ LET c == mem[r].cur
         rest == {l \in mem[r].todo : l.product # c.product}
     IN /\ tx' = [tx EXCEPT ![r].wrote = @ \cup {c.product},
                            ![r].inv[c.product] = Reserve(c.inventory, c.quantity)]
        /\ mem' = [mem EXCEPT ![r].todo = rest]
        /\ pc' = [pc EXCEPT ![r] = IF rest = {} THEN "clear_cart" ELSE "check_line"]
  /\ UNCHANGED <<inventory, carts, cartItems, orders, orderItems, earnings,
                 nextOrder, now, outcome, inventory0, config, session,
                 emptyLines, deletedLines, released, solo>>

\* two transactions each wait for a product row the other has written: the
\* database ends one of them with an error, which rolls it back
DeadlockAbort(r) ==
  /\ pc[r] = "save_product"
  /\ \E s \in Reqs \ {r} :
        /\ pc[s] = "save_product"
        /\ tx[s].active /\ mem[r].cur.product \in tx[s].wrote
        /\ tx[r].active /\ mem[s].cur.product \in tx[r].wrote
  /\ Finish(r, "Deadlock", mem[r])
  /\ Rollback(r)
  /\ UNCHANGED <<nextOrder, now, inventory0, config, session, emptyLines,
                 deletedLines, released, solo>>

C22_Mutant_CheckoutCommit(r) ==
  /\ pc[r] = "clear_cart"
  /\ orders' = (tx[r].order :> tx[r].row) @@ orders
  /\ orderItems' = orderItems \cup tx[r].items
  /\ inventory' = [p \in Products |-> IF p \in tx[r].wrote
                                       THEN tx[r].inv[p] ELSE inventory[p]]
  /\ tx' = [tx EXCEPT ![r] = NoTx]
  /\ pc' = [pc EXCEPT ![r] = "earnings_read"]
  /\ UNCHANGED <<carts, cartItems, emptyLines, deletedLines, earnings, nextOrder,
                 now, mem, outcome, inventory0, config, session, released, solo>>

\* serializers.py:285-288: the cart's items are deleted and create returns,
\* which commits: the order, its items, the inventories written and the
\* emptied cart become visible together
CheckoutCommit(r) ==
  /\ pc[r] = "clear_cart"
  /\ orders' = (tx[r].order :> tx[r].row) @@ orders
  /\ orderItems' = orderItems \cup tx[r].items
  /\ inventory' = [p \in Products |-> IF p \in tx[r].wrote
                                       THEN tx[r].inv[p] ELSE inventory[p]]
  /\ cartItems' = [cartItems EXCEPT ![mem[r].user] = [p \in Products |-> 0]]
  /\ emptyLines' = {l \in emptyLines : l[1] # mem[r].user}
  /\ deletedLines' = {l \in deletedLines : l[1] # mem[r].user}
  /\ tx' = [tx EXCEPT ![r] = NoTx]
  /\ pc' = [pc EXCEPT ![r] = "earnings_read"]
  /\ UNCHANGED <<carts, earnings, nextOrder, now, mem, outcome, inventory0, config,
                 session, released, solo>>

\* views.py:343-352: back in the view, outside the transaction, the order's
\* items are read and grouped by vendor
CheckoutEarningsRead(r) ==
  /\ pc[r] = "earnings_read"
  /\ LET items == ItemsOf(mem[r].order)
         vs == {[vendor |-> v,
                 gross_amount |-> SumTotalPrice({i \in items : i.vendor = v})] :
                  v \in {i.vendor : i \in items}}
     IN
     IF vs = {}
     THEN Finish(r, "Created", mem[r])
     ELSE /\ mem' = [mem EXCEPT ![r].vendors = vs]
          /\ pc' = [pc EXCEPT ![r] = "earnings_create"]
          /\ UNCHANGED outcome
  /\ UNCHANGED <<inventory, carts, cartItems, orders, orderItems, earnings,
                 nextOrder, now, tx, inventory0, config, session, emptyLines,
                 deletedLines, released, solo>>

\* views.py:354-363: one VendorEarnings row per vendor, each insert committed
\* on its own; after the last one the view answers 201.  An insert the
\* unique constraint refuses raises IntegrityError, which ends the view.
CheckoutEarningsCreate(r, v) ==
  /\ pc[r] = "earnings_create"
  /\ v \in mem[r].vendors
  /\ IF ~UniqueTogether(earnings, mem[r].order, v.vendor)
     THEN /\ Finish(r, "IntegrityError", mem[r])
          /\ UNCHANGED earnings
     ELSE /\ earnings' = earnings \cup
                {NewEarnings(mem[r].order, v.vendor, v.gross_amount)}
          /\ IF mem[r].vendors = {v}
             THEN Finish(r, "Created", [mem[r] EXCEPT !.vendors = {}])
             ELSE /\ mem' = [mem EXCEPT ![r].vendors = @ \ {v}]
                  /\ UNCHANGED <<pc, outcome>>
  /\ UNCHANGED <<inventory, carts, cartItems, orders, orderItems, nextOrder,
                 now, tx, inventory0, config, session, emptyLines, deletedLines, released, solo>>

(* --------------------------------- cancel ------------------------------ *)
\* POST /orders/<id>/cancel/: views.py cancel_order loads the caller's order
\* (views.py:396) and asks can_be_cancelled (views.py:398, again models.py:170)
CancelBegin(r, u, o, reason) ==
  /\ pc[r] = "idle"
  /\ solo' = IF solo # NoSolo /\ solo.order = o /\ OthersIdle(r)
             THEN solo ELSE NoSolo
  /\ LET m == [EmptyMem EXCEPT !.op = "cancel", !.user = u, !.order = o,
                               !.reason = reason] IN
     IF o \notin DOMAIN orders \/ orders[o].user # u
     THEN Finish(r, "NotFound", m)
     ELSE IF ~can_be_cancelled(orders[o])
     THEN Finish(r, "NotCancellable", [m EXCEPT !.row = orders[o]])
     ELSE /\ Len(orders[o].internal_notes) < MaxNotes
          /\ pc' = [pc EXCEPT ![r] = "cancel_items"]
          /\ mem' = [mem EXCEPT ![r] = [m EXCEPT !.row = orders[o]]]
          /\ UNCHANGED outcome
  /\ UNCHANGED <<inventory, carts, cartItems, orders, orderItems, earnings,
                 nextOrder, now, tx, inventory0, config, session, emptyLines,
                 deletedLines, released>>

\* models.py:174  for item in self.items.all(): the query runs once
CancelFetchItems(r) ==
  /\ pc[r] = "cancel_items"
  /\ mem' = [mem EXCEPT ![r].todo = ItemsOf(mem[r].order)]
  /\ pc' = [pc EXCEPT ![r] = IF ItemsOf(mem[r].order) = {}
                              THEN "cancel_save" ELSE "cancel_read"]
  /\ UNCHANGED <<inventory, carts, cartItems, orders, orderItems, earnings,
                 nextOrder, now, tx, outcome, inventory0, config, session,
                 emptyLines, deletedLines, released, solo>>

\* models.py:175: item.product is loaded from the table
CancelReadProduct(r, item) ==
  /\ pc[r] = "cancel_read"
  /\ item \in mem[r].todo
  /\ mem' = [mem EXCEPT ![r].cur = [product |-> item.product,
                quantity |-> item.quantity, inventory |-> inventory[item.product]]]
  /\ pc' = [pc EXCEPT ![r] = "cancel_save_product"]
  /\ UNCHANGED <<inventory, carts, cartItems, orders, orderItems, earnings,
                 nextOrder, now, tx, outcome, inventory0, config, session,
                 emptyLines, deletedLines, released, solo>>

\* models.py:175-176: the inventory held in memory is incremented and written
\* back, committed at once; the UPDATE waits for the row lock
CancelSaveProduct(r) ==
  /\ pc[r] = "cancel_save_product"
  /\ ~LockedByOther(r, mem[r].cur.product)
  /\ LET c == mem[r].cur
         rest == {i \in mem[r].todo : i.product # c.product}
     IN /\ inventory' = [inventory EXCEPT ![c.product] = Restore(c.inventory, c.quantity)]
        /\ released' = [released EXCEPT ![c.product] = @ + c.quantity]
        /\ mem' = [mem EXCEPT ![r].todo = rest]
        /\ pc' = [pc EXCEPT ![r] = IF rest = {} THEN "cancel_save" ELSE "cancel_read"]
  /\ UNCHANGED <<carts, cartItems, orders, orderItems, earnings, nextOrder,
                 now, tx, outcome, inventory0, config, session, emptyLines, deletedLines, solo>>

C30_Mutant_CancelSaveOrder(r) ==
  /\ pc[r] = "cancel_save"
  /\ orders' = [orders EXCEPT ![mem[r].order] =
        [@ EXCEPT !.status = "CANCELLED",
                  !.internal_notes = Append(mem[r].row.internal_notes, mem[r].reason)]]
  /\ earnings' = {IF e.order = mem[r].order THEN [e EXCEPT !.status = "pending"] ELSE e :
                    e \in earnings}
  /\ Finish(r, "Cancelled", mem[r])
  /\ UNCHANGED <<inventory, carts, cartItems, orderItems, nextOrder,
                 now, tx, inventory0, config, session, emptyLines, deletedLines,
                 released, solo>>

\* models.py:178-180: status and internal_notes, as held in memory, are
\* written (update_fields); the view answers 200
CancelSaveOrder(r) ==
  /\ pc[r] = "cancel_save"
  /\ orders' = [orders EXCEPT ![mem[r].order] =
        [@ EXCEPT !.status = "CANCELLED",
                  !.internal_notes = Append(mem[r].row.internal_notes, mem[r].reason)]]
  /\ Finish(r, "Cancelled", mem[r])
  /\ UNCHANGED <<inventory, carts, cartItems, orderItems, earnings, nextOrder,
                 now, tx, inventory0, config, session, emptyLines, deletedLines, released, solo>>

\* admin.py:163-165  OrderItemAdmin's "delete selected" action deletes the
\* rows through the queryset, which sends pre_delete for each; signals.py:16-21
\* restore_inventory_on_delete then gives the item's quantity back to the
\* product when the order is PENDING or CANCELLED.  One transaction.
DeleteOrderItem(r, item) ==
  /\ pc[r] = "idle"
  /\ item \in orderItems
  /\ ~LockedByOther(r, item.product)
  /\ solo' = NoSolo
  /\ IF orders[item.order].status \in {"PENDING", "CANCELLED"}
     THEN /\ inventory' = [inventory EXCEPT ![item.product] = Restore(@, item.quantity)]
          /\ released' = [released EXCEPT ![item.product] = @ + item.quantity]
     ELSE UNCHANGED <<inventory, released>>
  /\ orderItems' = orderItems \ {item}
  /\ Finish(r, "ItemDeleted", [EmptyMem EXCEPT !.op = "delete_item",
                                 !.order = item.order,
                                 !.cur = [product |-> item.product,
                                          quantity |-> item.quantity,
                                          inventory |-> inventory[item.product]]])
  /\ UNCHANGED <<carts, cartItems, orders, earnings, nextOrder, now, tx,
                 inventory0, config, session, emptyLines, deletedLines>>

(* ---------------------------- status transitions ----------------------- *)
\* values a caller may send as "status": the five choices and one that is none
StatusInputs == ORDER_STATUS_CHOICES \cup {"REFUNDED"}

\* VendorEarnings.objects.filter(order=order).update(status='available')
MakeAvailable(rows, o) ==
  {IF e.order = o THEN [e EXCEPT !.status = "available"] ELSE e : e \in rows}

C18_Mutant_UpdateStatusBegin(r, o, s, t) ==
  /\ pc[r] = "idle"
  /\ solo' = NoSolo
  /\ LET m == [EmptyMem EXCEPT !.op = "update_status", !.order = o,
                               !.new_status = s, !.tracking = t] IN
     IF o \notin DOMAIN orders
     THEN Finish(r, "NotFound", m)
     ELSE IF s \notin ORDER_STATUS_CHOICES
     THEN Finish(r, "InvalidStatus", [m EXCEPT !.row = orders[o]])
     ELSE /\ pc' = [pc EXCEPT ![r] = "status_save"]
          /\ mem' = [mem EXCEPT ![r] = [m EXCEPT !.row = orders[o]]]
          /\ UNCHANGED outcome
  /\ UNCHANGED <<inventory, carts, cartItems, orders, orderItems, earnings,
                 nextOrder, now, tx, inventory0, config, session, emptyLines,
                 deletedLines, released>>

\* POST /orders/<id>/status/: views.py:440-475 update_order_status loads the
\* order, validates the status and answers at once when it is the current one
UpdateStatusBegin(r, o, s, t) ==
  /\ pc[r] = "idle"
  /\ solo' = NoSolo
  /\ LET m == [EmptyMem EXCEPT !.op = "update_status", !.order = o,
                               !.new_status = s, !.tracking = t] IN
     IF o \notin DOMAIN orders
     THEN Finish(r, "NotFound", m)
     ELSE IF s \notin ORDER_STATUS_CHOICES
     THEN Finish(r, "InvalidStatus", [m EXCEPT !.row = orders[o]])
     ELSE IF s = orders[o].status
     THEN Finish(r, "NoOp", [m EXCEPT !.row = orders[o]])
     ELSE /\ pc' = [pc EXCEPT ![r] = "status_save"]
          /\ mem' = [mem EXCEPT ![r] = [m EXCEPT !.row = orders[o]]]
          /\ UNCHANGED outcome
  /\ UNCHANGED <<inventory, carts, cartItems, orders, orderItems, earnings,
                 nextOrder, now, tx, inventory0, config, session, emptyLines,
                 deletedLines, released>>

C25_Mutant_Backfill(at, later) == at

\* views.py:497-498  if not order.shipped_at: order.shipped_at = timezone.now()
Backfill(at, later) == IF at = NULL THEN later ELSE at

\* views.py:478-500: inside one transaction the status is set, the timestamp
\* of the new status is taken from the clock, the earnings are made available
\* on PAID, and the whole row held in memory is saved.  later: the second
\* reading of the clock (views.py:498), at or after the first.
UpdateStatusSave(r, later) ==
  /\ pc[r] = "status_save"
  /\ LET o == mem[r].order
         s == mem[r].new_status
         old == mem[r].row
         t1 == now + 1
         row == IF s = "PAID"
                THEN [old EXCEPT !.status = s, !.paid_at = t1]
                ELSE IF s = "SHIPPED"
                THEN [old EXCEPT !.status = s, !.shipped_at = t1,
                        !.tracking_number = IF mem[r].tracking # ""
                                            THEN mem[r].tracking ELSE @]
                ELSE IF s = "DELIVERED"
                THEN [old EXCEPT !.status = s, !.delivered_at = t1,
                        !.shipped_at = Backfill(@, later)]
                ELSE [old EXCEPT !.status = s]
         stamped == s \in {"PAID", "SHIPPED", "DELIVERED"}
         twice == s = "DELIVERED" /\ old.shipped_at = NULL
     IN /\ later \in (IF twice THEN {t1, t1 + 1} ELSE {t1})
        /\ later <= MaxClock
        /\ now' = IF stamped THEN later ELSE now
        /\ orders' = [orders EXCEPT ![o] = row]
        /\ earnings' = IF s = "PAID" THEN MakeAvailable(earnings, o) ELSE earnings
  /\ Finish(r, "Updated", mem[r])
  /\ UNCHANGED <<inventory, carts, cartItems, orderItems, nextOrder, tx,
                 inventory0, config, session, emptyLines, deletedLines, released, solo>>

\* admin.py:137  OrderAdmin.mark_paid loads the order
MarkPaidBegin(r, o) ==
  /\ pc[r] = "idle"
  /\ solo' = NoSolo
  /\ LET m == [EmptyMem EXCEPT !.op = "mark_paid", !.order = o] IN
     IF o \notin DOMAIN orders
     THEN Finish(r, "NotFound", m)
     ELSE /\ pc' = [pc EXCEPT ![r] = "paid_save"]
          /\ mem' = [mem EXCEPT ![r] = [m EXCEPT !.row = orders[o]]]
          /\ UNCHANGED outcome
  /\ UNCHANGED <<inventory, carts, cartItems, orders, orderItems, earnings,
                 nextOrder, now, tx, inventory0, config, session, emptyLines,
                 deletedLines, released>>

\* admin.py:138-140: status and paid_at are set whatever the status was, and
\* the whole row is saved
MarkPaidSave(r) ==
  /\ pc[r] = "paid_save"
  /\ now < MaxClock
  /\ now' = now + 1
  /\ orders' = [orders EXCEPT ![mem[r].order] =
                  [mem[r].row EXCEPT !.status = "PAID", !.paid_at = now + 1]]
  /\ pc' = [pc EXCEPT ![r] = "paid_earnings"]
  /\ UNCHANGED <<inventory, carts, cartItems, orderItems, earnings, nextOrder,
                 mem, tx, outcome, inventory0, config, session, emptyLines,
                 deletedLines, released, solo>>

\* admin.py:142-147: the order's earnings are made available
MarkPaidEarnings(r) ==
  /\ pc[r] = "paid_earnings"
  /\ earnings' = MakeAvailable(earnings, mem[r].order)
  /\ Finish(r, "MarkedPaid", mem[r])
  /\ UNCHANGED <<inventory, carts, cartItems, orders, orderItems, nextOrder,
                 now, tx, inventory0, config, session, emptyLines, deletedLines, released, solo>>

\* admin.py:153  OrderAdmin.mark_shipped loads the order
MarkShippedBegin(r, o) ==
  /\ pc[r] = "idle"
  /\ solo' = NoSolo
  /\ LET m == [EmptyMem EXCEPT !.op = "mark_shipped", !.order = o] IN
     IF o \notin DOMAIN orders
     THEN Finish(r, "NotFound", m)
     ELSE /\ pc' = [pc EXCEPT ![r] = "shipped_save"]
          /\ mem' = [mem EXCEPT ![r] = [m EXCEPT !.row = orders[o]]]
          /\ UNCHANGED outcome
  /\ UNCHANGED <<inventory, carts, cartItems, orders, orderItems, earnings,
                 nextOrder, now, tx, inventory0, config, session, emptyLines,
                 deletedLines, released>>

\* admin.py:154-160: status and shipped_at are set whatever the status was
MarkShippedSave(r) ==
  /\ pc[r] = "shipped_save"
  /\ now < MaxClock
  /\ now' = now + 1
  /\ orders' = [orders EXCEPT ![mem[r].order] =
                  [mem[r].row EXCEPT !.status = "SHIPPED", !.shipped_at = now + 1]]
  /\ Finish(r, "MarkedShipped", mem[r])
  /\ UNCHANGED <<inventory, carts, cartItems, orderItems, earnings, nextOrder,
                 tx, inventory0, config, session, emptyLines, deletedLines, released, solo>>

\* admin.py:230-233  VendorEarningsAdmin.mark_as_paid: one UPDATE sets the
\* selected earnings rows to paid, whatever their status
MarkAsPaid(r, sel) ==
  /\ pc[r] = "idle"
  /\ sel # {} /\ sel \subseteq earnings
  /\ earnings' = {IF e \in sel THEN [e EXCEPT !.status = "paid"] ELSE e : e \in earnings}
  /\ Finish(r, "EarningsPaid", [EmptyMem EXCEPT !.op = "mark_as_paid"])
  /\ solo' = NoSolo
  /\ UNCHANGED <<inventory, carts, cartItems, orders, orderItems, nextOrder,
                 now, tx, inventory0, config, session, emptyLines, deletedLines, released>>

\* gross amounts an administrator types into the add form, in cents
AdminGross == {1000}

\* admin.py:207-208  VendorEarningsAdmin is a plain ModelAdmin: its add form
\* creates a row for any order and vendor, with the amounts typed in
\* (platform_fee and status at their defaults here, net_amount set by
\* VendorEarnings.save), unless a row for the pair exists: then the form
\* answers "already exists" and saves nothing
AdminAddEarnings(r, o, v, gross) ==
  /\ pc[r] = "idle"
  /\ o \in DOMAIN orders
  /\ solo' = NoSolo
  /\ LET m == [EmptyMem EXCEPT !.op = "add_earnings", !.order = o,
                  !.vendors = {[vendor |-> v, gross_amount |-> gross]}] IN
     IF ~UniqueTogether(earnings, o, v)
     THEN /\ Finish(r, "AlreadyExists", m)
          /\ UNCHANGED earnings
     ELSE /\ Finish(r, "EarningsAdded", m)
          /\ earnings' = earnings \cup
                {[order |-> o, vendor |-> v, status |-> "pending",
                  gross_amount |-> gross, platform_fee |-> 0,
                  net_amount |-> gross]}
  /\ UNCHANGED <<inventory, carts, cartItems, orders, orderItems, nextOrder,
                 now, tx, inventory0, config, session, emptyLines, deletedLines, released>>

(* ---------------------------- specifications --------------------------- *)
\* concurrent requests: carts are filled, checked out and orders cancelled
Next ==
  \/ \E r \in Reqs : CheckoutBegin(r, UserOf[r])
  \/ \E r \in Reqs : CheckoutFetchItems(r)
  \/ \E r \in Reqs : \E line \in mem[r].todo : CheckoutCheckLine(r, line)
  \/ \E r \in Reqs : CheckoutSaveProduct(r)
  \/ \E r \in Reqs : DeadlockAbort(r)
  \/ \E r \in Reqs : CheckoutCommit(r)
  \/ \E r \in Reqs : CheckoutEarningsRead(r)
  \/ \E r \in Reqs : \E v \in mem[r].vendors : CheckoutEarningsCreate(r, v)
  \/ \E r \in Reqs, o \in OrderIds, reason \in Reasons :
        CancelBegin(r, UserOf[r], o, reason)
  \/ \E r \in Reqs : CancelFetchItems(r)
  \/ \E r \in Reqs : \E item \in mem[r].todo : CancelReadProduct(r, item)
  \/ \E r \in Reqs : CancelSaveProduct(r)
  \/ \E r \in Reqs : CancelSaveOrder(r)
  \/ \E r \in Reqs : Respond(r)

Spec == Init /\ [][Next]_vars

\* one administrator and one customer, their requests one after another: the
\* customer fills the cart, checks out and cancels; the administrator moves
\* orders through their statuses
InitLifecycle ==
  /\ Init
  /\ carts = {}
  /\ cartItems = [u \in Users |-> [p \in Products |-> 0]]

NextLifecycle ==
  \/ \E p \in Products, q \in 1..MaxQty :
        pc[1] = "idle" /\ nextOrder \in LifecycleOrders /\ AddItem("u1", p, q)
  \/ nextOrder \in LifecycleOrders /\ CheckoutBegin(1, "u1")
  \/ CheckoutFetchItems(1)
  \/ \E line \in mem[1].todo : CheckoutCheckLine(1, line)
  \/ CheckoutSaveProduct(1)
  \/ CheckoutCommit(1)
  \/ CheckoutEarningsRead(1)
  \/ \E v \in mem[1].vendors : CheckoutEarningsCreate(1, v)
  \/ \E o \in LifecycleOrders, reason \in Reasons : CancelBegin(1, "u1", o, reason)
  \/ CancelFetchItems(1)
  \/ \E item \in mem[1].todo : CancelReadProduct(1, item)
  \/ CancelSaveProduct(1)
  \/ CancelSaveOrder(1)
  \/ \E o \in LifecycleOrders, s \in StatusInputs, t \in TrackingNumbers :
        UpdateStatusBegin(1, o, s, t)
  \/ \E later \in 1..MaxClock : UpdateStatusSave(1, later)
  \/ \E o \in LifecycleOrders : MarkPaidBegin(1, o)
  \/ MarkPaidSave(1)
  \/ MarkPaidEarnings(1)
  \/ \E o \in LifecycleOrders : MarkShippedBegin(1, o)
  \/ MarkShippedSave(1)
  \/ Respond(1)

SpecLifecycle == InitLifecycle /\ [][NextLifecycle]_vars

\* a customer checks out on slot 1 while an admin, on slot 2, changes order
\* statuses and pays out earnings
InitPaid ==
  /\ Init
  /\ "u2" \notin carts
  /\ cartItems["u2"] = [p \in Products |-> 0]

NextPaid ==
  \/ nextOrder \in LifecycleOrders /\ CheckoutBegin(1, "u1")
  \/ CheckoutFetchItems(1)
  \/ \E line \in mem[1].todo : CheckoutCheckLine(1, line)
  \/ CheckoutSaveProduct(1)
  \/ CheckoutCommit(1)
  \/ CheckoutEarningsRead(1)
  \/ \E v \in mem[1].vendors : CheckoutEarningsCreate(1, v)
  \/ \E o \in LifecycleOrders, s \in StatusInputs, t \in TrackingNumbers :
        UpdateStatusBegin(2, o, s, t)
  \/ \E later \in 1..MaxClock : UpdateStatusSave(2, later)
  \/ \E o \in LifecycleOrders : MarkPaidBegin(2, o)
  \/ MarkPaidSave(2)
  \/ MarkPaidEarnings(2)
  \/ \E sel \in SUBSET earnings : MarkAsPaid(2, sel)
  \/ \E r \in Reqs : Respond(r)

SpecPaid == InitPaid /\ [][NextPaid]_vars

\* prices in cents, and catalog/models.py:71-76 sale_price, which may be unset
\* and which nothing keeps below the price
Prices == {1000, 1010, 2000}
SalePrices == {NULL, 500, 1500}
ShippingPrices == {0, 500}
RoundingModes == {"ROUND_HALF_EVEN", "ROUND_HALF_UP"}

\* one customer checks out a cart, nothing else runs: the products have any
\* of the prices and vendors, the cart any quantities, all in stock; the
\* database is any of those Django supports
InitAmounts ==
  /\ inventory = [p \in Products |-> MaxAmountQty]
  /\ inventory0 = inventory
  /\ cartItems \in [Users -> [Products -> 0..MaxAmountQty]]
  /\ cartItems["u2"] = [p \in Products |-> 0]
  /\ carts = {"u1"}
  /\ orders = << >>
  /\ orderItems = {}
  /\ earnings = {}
  /\ nextOrder = 1
  /\ now = 0
  /\ pc = [r \in Reqs |-> "idle"]
  /\ mem = [r \in Reqs |-> EmptyMem]
  /\ tx = [r \in Reqs |-> NoTx]
  /\ outcome = [r \in Reqs |-> "none"]
  /\ released = [p \in Products |-> 0]
  /\ solo = NoSolo
  /\ catalog \in [Products -> [price : Prices, sale_price : SalePrices, vendor : Vendors]]
  /\ shipping \in ShippingPrices
  /\ rounding \in RoundingModes
  /\ sessionCart = "none"
  /\ sessionItems = [p \in Products |-> 0]
  /\ emptyLines = {}
  /\ deletedLines = {}

NextAmounts ==
  \/ nextOrder \in LifecycleOrders /\ CheckoutBegin(1, "u1")
  \/ CheckoutFetchItems(1)
  \/ \E line \in mem[1].todo : CheckoutCheckLine(1, line)
  \/ CheckoutSaveProduct(1)
  \/ CheckoutCommit(1)
  \/ CheckoutEarningsRead(1)
  \/ \E v \in mem[1].vendors : CheckoutEarningsCreate(1, v)
  \/ Respond(1)

SpecAmounts == InitAmounts /\ [][NextAmounts]_vars

\* a customer checks out on slot 1 while an administrator, on slot 2, adds
\* earnings rows by hand
NextEarnings ==
  \/ nextOrder \in LifecycleOrders /\ CheckoutBegin(1, "u1")
  \/ CheckoutFetchItems(1)
  \/ \E line \in mem[1].todo : CheckoutCheckLine(1, line)
  \/ CheckoutSaveProduct(1)
  \/ CheckoutCommit(1)
  \/ CheckoutEarningsRead(1)
  \/ \E v \in mem[1].vendors : CheckoutEarningsCreate(1, v)
  \/ \E o \in LifecycleOrders, v \in Vendors, g \in AdminGross :
        AdminAddEarnings(2, o, v, g)
  \/ \E r \in Reqs : Respond(r)

SpecEarnings == InitPaid /\ [][NextEarnings]_vars

\* one customer, logged in from a browser session that may own an anonymous
\* cart filled earlier: the customer adds items, looks at the cart and
\* merges the session's cart, changes and removes lines and checks out;
\* stock may have gone since a line was added
InitCart ==
  /\ inventory \in [Products -> 0..MaxInv]
  /\ inventory0 = inventory
  /\ cartItems \in [Users -> [Products -> 0..MaxQty]]
  /\ cartItems["u2"] = [p \in Products |-> 0]
  /\ carts \in SUBSET {"u1"}
  /\ (\E p \in Products : cartItems["u1"][p] > 0) => "u1" \in carts
  /\ orders = << >>
  /\ orderItems = {}
  /\ earnings = {}
  /\ nextOrder = 1
  /\ now = 0
  /\ pc = [r \in Reqs |-> "idle"]
  /\ mem = [r \in Reqs |-> EmptyMem]
  /\ tx = [r \in Reqs |-> NoTx]
  /\ outcome = [r \in Reqs |-> "none"]
  /\ released = [p \in Products |-> 0]
  /\ solo = NoSolo
  /\ catalog = [p \in Products |->
                  [price |-> IF p = "A" THEN 1000 ELSE 2000, sale_price |-> NULL,
                   vendor |-> VendorOf[p]]]
  /\ shipping = 500
  /\ rounding = "ROUND_HALF_EVEN"
  /\ sessionCart \in {"none", "live"}
  /\ sessionItems \in [Products -> 0..MaxQty]
  /\ sessionCart = "none" => sessionItems = [p \in Products |-> 0]
  /\ emptyLines = {}
  /\ deletedLines = {}

NextCart ==
  \/ \E p \in Products, q \in 0..(MaxQty + 1) : PostCartItem(1, "u1", p, q)
  \/ GetCart(1, "u1")
  \/ \E key \in SessionKeys : MergeCart(1, "u1", key)
  \/ \E p \in Products, q \in 0..(MaxQty + 1), put \in BOOLEAN :
        SetQuantity(1, "u1", p, q, put)
  \/ \E p \in Products : RemoveCartItem(1, "u1", p)
  \/ nextOrder \in LifecycleOrders /\ CheckoutBegin(1, "u1")
  \/ CheckoutFetchItems(1)
  \/ \E line \in mem[1].todo : CheckoutCheckLine(1, line)
  \/ CheckoutSaveProduct(1)
  \/ CheckoutCommit(1)
  \/ CheckoutEarningsRead(1)
  \/ \E v \in mem[1].vendors : CheckoutEarningsCreate(1, v)
  \/ Respond(1)

SpecCart == InitCart /\ [][NextCart]_vars

\* a customer checks out one order and then cancels it, possibly twice at the
\* same time (a double submit), while an administrator deletes order items
NextRelease ==
  \/ nextOrder \in LifecycleOrders /\ CheckoutBegin(1, "u1")
  \/ CheckoutFetchItems(1)
  \/ \E line \in mem[1].todo : CheckoutCheckLine(1, line)
  \/ CheckoutSaveProduct(1)
  \/ CheckoutCommit(1)
  \/ CheckoutEarningsRead(1)
  \/ \E v \in mem[1].vendors : CheckoutEarningsCreate(1, v)
  \/ \E r \in Reqs, o \in LifecycleOrders, reason \in Reasons :
        CancelBegin(r, "u1", o, reason)
  \/ \E r \in Reqs : CancelFetchItems(r)
  \/ \E r \in Reqs : \E item \in mem[r].todo : CancelReadProduct(r, item)
  \/ \E r \in Reqs : CancelSaveProduct(r)
  \/ \E r \in Reqs : CancelSaveOrder(r)
  \/ \E item \in orderItems : DeleteOrderItem(2, item)
  \/ \E r \in Reqs : Respond(r)

SpecRelease == InitPaid /\ [][NextRelease]_vars

\* a double submit: the two request slots both post the checkout of user u1,
\* whose cart nothing refills
NextDouble ==
  \/ \E r \in Reqs : CheckoutBegin(r, "u1")
  \/ \E r \in Reqs : CheckoutFetchItems(r)
  \/ \E r \in Reqs : \E line \in mem[r].todo : CheckoutCheckLine(r, line)
  \/ \E r \in Reqs : CheckoutSaveProduct(r)
  \/ \E r \in Reqs : DeadlockAbort(r)
  \/ \E r \in Reqs : CheckoutCommit(r)
  \/ \E r \in Reqs : CheckoutEarningsRead(r)
  \/ \E r \in Reqs : \E v \in mem[r].vendors : CheckoutEarningsCreate(r, v)
  \/ \E r \in Reqs : Respond(r)

SpecDouble == InitPaid /\ [][NextDouble]_vars

(* ======================= the claims, C1 to C10 ========================= *)
\* the requests that are checkouts whose cart held the single line p x 1
\* and that have their answer
AskedLastUnit(r, p) ==
  /\ pc[r] = "respond"
  /\ mem[r].op = "checkout"
  /\ {<<l.product, l.quantity>> : l \in mem[r].created \cup mem[r].todo} = {<<p, 1>>}

\* C1: two checkouts that run concurrently, each for one unit of the same
\* product of which one unit is in stock: exactly one is answered 201 and the
\* other InsufficientInventory, whatever the interleaving.
C1_LastUnitGoesToExactlyOne ==
  \A p \in Products :
    (inventory0[p] = 1 /\ released[p] = 0 /\ \A r \in Reqs : AskedLastUnit(r, p))
      => \E r \in Reqs :
            /\ outcome[r] = "Created"
            /\ \A s \in Reqs \ {r} : outcome[s] = "InsufficientInventory"

\* C2: an order, its items and its vendor earnings are visible together or
\* not at all: no state shows a committed order with items of a vendor and no
\* earnings row of that order for that vendor.
C2_OrderVisibleWithItsEarnings ==
  \A o \in DOMAIN orders :
    \A i \in ItemsOf(o) : \E e \in EarningsOf(o) : e.vendor = i.vendor

RECURSIVE SumQuantity(_)
SumQuantity(items) ==
  IF items = {} THEN 0
  ELSE LET i == CHOOSE x \in items : TRUE
       IN i.quantity + SumQuantity(items \ {i})

\* the quantity of product p reserved by the checkouts that succeeded
Reserved(p) == SumQuantity({i \in orderItems : i.product = p})

\* C3: after any interleaving of checkouts and cancels, a product's inventory
\* is what it started with, minus what the successful checkouts reserved,
\* plus what the cancels released.
C3_InventoryIsInitialMinusReservedPlusReleased ==
  (\A r \in Reqs : pc[r] \in {"idle", "respond"})
    => \A p \in Products :
         inventory[p] = inventory0[p] - Reserved(p) + released[p]

\* the answers of a checkout that fails on its cart
CheckoutFailures == {"EmptyCart", "InsufficientInventory"}

\* C4: a checkout that fails with EmptyCart or InsufficientInventory has no
\* side effects: every step it takes inside its transaction, the failing one
\* included, leaves inventory, carts, orders, items and earnings as they
\* were (also for the lines handled before the offending one), and once it
\* has failed no Order, OrderItem or VendorEarnings row carries its order id.
C4_FailedCheckoutHasNoSideEffects ==
  [][\A r \in Reqs :
       /\ (pc'[r] # pc[r] /\ mem'[r].op = "checkout"
             /\ (tx'[r].active \/ outcome'[r] \in CheckoutFailures))
            => db' = db
       /\ (pc'[r] # pc[r] /\ mem'[r].op = "checkout"
             /\ outcome'[r] \in CheckoutFailures)
            => /\ mem'[r].order \notin DOMAIN orders'
               /\ \A i \in orderItems' : i.order # mem'[r].order
               /\ \A e \in earnings' : e.order # mem'[r].order
               /\ cartItems'[mem'[r].user] = cartItems[mem'[r].user]
    ]_vars

\* a checkout has failed on a line after it had handled another line
C4_Witness ==
  \E r \in Reqs :
    /\ pc[r] = "respond"
    /\ outcome[r] = "InsufficientInventory"
    /\ mem[r].created # {}

C6_BoundaryOfTheInventoryCheck ==
  [][\A r \in Reqs :
       /\ (pc[r] = "check_line" /\ pc'[r] # pc[r])
            => LET c == mem'[r].cur IN
               /\ c.inventory = inventory[c.product]
               /\ (c.quantity = c.inventory => pc'[r] = "save_product")
               /\ (c.quantity = c.inventory + 1
                     => pc'[r] = "respond" /\ outcome'[r] = "InsufficientInventory")
       /\ (pc[r] = "clear_cart" /\ pc'[r] = "earnings_read")
            => /\ mem[r].order \in DOMAIN orders'
               /\ \A c \in mem[r].created :
                    c.quantity = c.inventory => inventory'[c.product] = 0
    ]_vars

\* one checkout has committed a line that asked for all the stock, which is
\* now 0, and another has been refused a line that asked for one too many
C6_Witness ==
  /\ \E r \in Reqs :
       /\ pc[r] = "earnings_read"
       /\ \E c \in mem[r].created :
            c.quantity = c.inventory /\ inventory[c.product] = 0
  /\ \E r \in Reqs :
       /\ pc[r] = "respond" /\ outcome[r] = "InsufficientInventory"
       /\ mem[r].cur.quantity = mem[r].cur.inventory + 1

\* C7: a checkout followed at once by the cancel of the PENDING order it
\* created (no other operation in between) leaves every product's inventory
\* as it was before the checkout.
C7_CheckoutThenCancelRestoresInventory ==
  \A r \in Reqs :
    (pc[r] = "respond" /\ outcome[r] = "Cancelled"
       /\ solo # NoSolo /\ solo.order = mem[r].order)
      => inventory = solo.inv

\* the order of a checkout has been cancelled right after it, and the order
\* had items
C7_Witness ==
  \E r \in Reqs :
    /\ pc[r] = "respond" /\ outcome[r] = "Cancelled"
    /\ solo # NoSolo /\ solo.order = mem[r].order
    /\ mem[r].row.status = "PENDING"
    /\ ItemsOf(mem[r].order) # {}

\* the edges of the order lifecycle
LifecycleEdges ==
  {<<"PENDING", "PAID">>, <<"PAID", "SHIPPED">>, <<"SHIPPED", "DELIVERED">>,
   <<"PENDING", "CANCELLED">>, <<"PAID", "CANCELLED">>}

\* C8: whatever sequence of updateOrderStatus, cancelOrder and admin
\* mark-paid / mark-shipped calls is made, an order's status changes only
\* along PENDING->PAID->SHIPPED->DELIVERED, PENDING->CANCELLED and
\* PAID->CANCELLED.
C8_StatusChangesOnlyAlongTheLifecycle ==
  [][\A o \in DOMAIN orders :
       \/ orders'[o].status = orders[o].status
       \/ <<orders[o].status, orders'[o].status>> \in LifecycleEdges
    ]_vars

\* the timestamps of an order that are set
Stamps(row) == {f \in {"paid_at", "shipped_at", "delivered_at"} : row[f] # NULL}

\* C9: paid_at, shipped_at and delivered_at are each set at most once and
\* never overwritten, and those that are set satisfy
\* paid_at <= shipped_at <= delivered_at.
C9_TimestampsSetOnceAndOrdered ==
  /\ [](\A o \in DOMAIN orders :
          LET row == orders[o] IN
          /\ {"paid_at", "shipped_at"} \subseteq Stamps(row)
               => row.paid_at <= row.shipped_at
          /\ {"shipped_at", "delivered_at"} \subseteq Stamps(row)
               => row.shipped_at <= row.delivered_at
          /\ {"paid_at", "delivered_at"} \subseteq Stamps(row)
               => row.paid_at <= row.delivered_at)
  /\ [][\A o \in DOMAIN orders :
          \A f \in Stamps(orders[o]) : orders'[o][f] = orders[o][f]
       ]_vars

\* C10: cancel on a SHIPPED, DELIVERED or CANCELLED order is answered
\* NotCancellable and leaves status, notes and inventory as they were; on a
\* PENDING or PAID order it is accepted, adds each item's quantity to the
\* inventory of the item's product (each item once), sets the status to
\* CANCELLED and appends the reason to the notes.  Requests follow one
\* another here; what concurrent requests do to a cancel is claim C11's.
C10_CancelOnlyFromPendingOrPaid ==
  [][\A r \in Reqs :
       /\ (pc[r] = "idle" /\ pc'[r] # "idle" /\ mem'[r].op = "cancel"
             /\ mem'[r].order \in DOMAIN orders
             /\ orders[mem'[r].order].user = mem'[r].user)
            => IF orders[mem'[r].order].status \in {"SHIPPED", "DELIVERED", "CANCELLED"}
               THEN /\ outcome'[r] = "NotCancellable" /\ pc'[r] = "respond"
                    /\ orders' = orders /\ inventory' = inventory
               ELSE /\ outcome'[r] = "none" /\ pc'[r] = "cancel_items"
       /\ (pc[r] = "cancel_save_product" /\ pc'[r] # pc[r])
            => \E i \in ItemsOf(mem[r].order) \cap mem[r].todo :
                 /\ inventory' = [inventory EXCEPT ![i.product] = @ + i.quantity]
                 /\ mem'[r].todo = mem[r].todo \ {i}
                 /\ orders' = orders
       /\ (pc[r] = "cancel_save" /\ pc'[r] # pc[r])
            => /\ mem[r].todo = {}
               /\ outcome'[r] = "Cancelled"
               /\ orders'[mem[r].order].status = "CANCELLED"
               /\ orders'[mem[r].order].internal_notes
                    = Append(orders[mem[r].order].internal_notes, mem[r].reason)
               /\ inventory' = inventory
    ]_vars

\* an order was cancelled, which wrote the reason to its notes, and a second
\* cancel of it has been refused
C10_Witness ==
  \E r \in Reqs :
    /\ pc[r] = "respond" /\ outcome[r] = "NotCancellable"
    /\ orders[mem[r].order].status = "CANCELLED"
    /\ orders[mem[r].order].internal_notes = <<mem[r].reason>>
    /\ ItemsOf(mem[r].order) # {}
    /\ \A p \in Products : inventory[p] = inventory0[p]

(* ======================= the claims, C11 to C20 ======================== *)
\* the items of order o that a cancel in progress has already given back
RestoredSoFar(o) ==
  {i \in ItemsOf(o) :
     \E r \in Reqs :
       /\ mem[r].op = "cancel" /\ mem[r].order = o
       /\ pc[r] \in {"cancel_read", "cancel_save_product", "cancel_save"}
       /\ i \notin mem[r].todo}

\* C11: cancel is atomic: no state, visible to another request or left by a
\* failure part-way, has some items of an order given back to inventory
\* while the order's status is still PENDING or PAID.
C11_CancelTakesEffectTogether ==
  \A o \in DOMAIN orders :
    orders[o].status \in {"PENDING", "PAID"} => RestoredSoFar(o) = {}

\* C12: an order whose status is PAID has no VendorEarnings row that is
\* still pending, in every state reached by interleaving a checkout (with
\* its earnings creation), updateOrderStatus and the admin's mark-paid.
C12_PaidOrderHasNoPendingEarnings ==
  \A o \in DOMAIN orders :
    orders[o].status = "PAID" => \A e \in EarningsOf(o) : e.status # "pending"

\* the forward order of the earnings statuses
EarningsRank(st) == IF st = "pending" THEN 0 ELSE IF st = "available" THEN 1 ELSE 2

\* C13: the status of a VendorEarnings row only moves forward along
\* pending -> available -> paid: no step takes the row of a (vendor, order)
\* pair back to an earlier status.
C13_EarningsStatusOnlyMovesForward ==
  [][\A e \in earnings : \A f \in earnings' :
       (f.order = e.order /\ f.vendor = e.vendor)
         => EarningsRank(f.status) >= EarningsRank(e.status)
    ]_vars

\* a checkout has answered 201 Created
CheckoutSucceeded(r) ==
  pc[r] = "respond" /\ mem[r].op = "checkout" /\ outcome[r] = "Created"

C15_EarningsAddUpToTheItems ==
  \A r \in Reqs :
    CheckoutSucceeded(r) =>
      SumTotalPrice({[vendor |-> e.vendor,
                      total_price |-> e.net_amount + e.platform_fee] :
                        e \in EarningsOf(mem[r].order)})
        = SumTotalPrice(ItemsOf(mem[r].order))

\* C17: a successful checkout stores subtotal = sum of quantity x effective
\* unit price (the sale price when there is one), tax = 8% of the subtotal
\* (to the nearest cent), shipping = the method's price, discount 0,
\* total = subtotal + tax + shipping - discount and status PENDING; a cart of
\* 3 x $10 and 1 x $20 with $5 shipping gives $50, $4 and $59.
C17_OrderAmounts ==
  \A r \in Reqs :
    (CheckoutSucceeded(r) /\ mem[r].order \in DOMAIN orders) =>
      LET row == orders[mem[r].order]
          lines == {[product |-> i.product,
                     total_price |-> i.quantity *
                        (IF catalog[i.product].sale_price # NULL
                         THEN catalog[i.product].sale_price
                         ELSE catalog[i.product].price)] : i \in ItemsOf(mem[r].order)}
      IN /\ row.subtotal = SumTotalPrice(lines)
         /\ 100 * row.tax_amount - 8 * row.subtotal \in -50..50
         /\ row.shipping_amount = shipping
         /\ row.discount_amount = 0
         /\ row.total_amount = row.subtotal + row.tax_amount
                                  + row.shipping_amount - row.discount_amount
         /\ row.status = "PENDING"
         /\ (lines = {[product |-> "A", total_price |-> 3000],
                      [product |-> "B", total_price |-> 2000]} /\ shipping = 500)
              => (row.subtotal = 5000 /\ row.tax_amount = 400
                    /\ row.total_amount = 5900)

\* the checkout of 3 x $10 and 1 x $20 with $5 shipping has succeeded
C17_Witness ==
  \E r \in Reqs :
    /\ CheckoutSucceeded(r)
    /\ mem[r].order \in DOMAIN orders
    /\ shipping = 500
    /\ {<<i.quantity, i.unit_price>> : i \in ItemsOf(mem[r].order)}
         = {<<3, 1000>>, <<1, 2000>>}
    /\ orders[mem[r].order].total_amount = 5900

C18_SameStatusIsANoOp ==
  [][\A r \in Reqs :
       (pc[r] = "idle" /\ pc'[r] # "idle" /\ mem'[r].op = "update_status"
          /\ mem'[r].order \in DOMAIN orders
          /\ mem'[r].new_status = orders[mem'[r].order].status)
         => /\ pc'[r] = "respond" /\ outcome'[r] = "NoOp"
            /\ orders' = orders
            /\ earnings' = earnings
    ]_vars

\* a PAID order that has earnings rows was asked to become PAID
C18_Witness ==
  \E r \in Reqs :
    /\ pc[r] = "respond" /\ outcome[r] = "NoOp"
    /\ mem[r].new_status = "PAID"
    /\ orders[mem[r].order].paid_at # NULL
    /\ EarningsOf(mem[r].order) # {}

Min(a, b) == IF a <= b THEN a ELSE b

C20_MergeAddsClampedToInventory ==
  [][\A r \in Reqs :
       (pc[r] = "idle" /\ pc'[r] = "respond"
          /\ outcome'[r] \in {"Merged", "CartMerged"})
         => \A p \in Products :
              sessionItems[p] > 0
                => cartItems'[mem'[r].user][p] =
                     Min(cartItems[mem'[r].user][p] + sessionItems[p], inventory[p])
    ]_vars

(* ======================= the claims, C21 to C30 ======================== *)
\* C21: once the session cart has been merged it is gone: a merge or a cart
\* access that comes after a merge finds no session cart, merges nothing and
\* leaves the quantities of the user's cart as they are.
C21_SessionCartGoneAfterMerge ==
  [][\A r \in Reqs :
       (pc[r] = "idle" /\ pc'[r] = "respond"
          /\ mem'[r].op \in {"merge_cart", "get_cart"}
          /\ sessionCart = "deleted")
         => /\ outcome'[r] \notin {"Merged", "CartMerged"}
            /\ cartItems' = cartItems
    ]_vars

\* C22: the commit of a successful checkout deletes every item of the
\* user's cart and keeps the cart row, and a checkout of a user who has an
\* order and whose cart holds no items is answered EmptyCart and writes
\* nothing.
C22_CheckoutEmptiesTheCartAndKeepsIt ==
  [][\A r \in Reqs :
       /\ (pc[r] = "clear_cart" /\ pc'[r] = "earnings_read")
            => /\ mem[r].user \in carts'
               /\ \A p \in Products :
                    cartItems'[mem[r].user][p] = 0 /\ <<mem[r].user, p>> \notin emptyLines'
       /\ (pc[r] = "idle" /\ pc'[r] # "idle" /\ mem'[r].op = "checkout"
             /\ mem'[r].user \in carts /\ CartLines(mem'[r].user) = {}
             /\ \E o \in DOMAIN orders : orders[o].user = mem'[r].user)
            => /\ pc'[r] = "respond" /\ outcome'[r] = "EmptyCart"
               /\ db' = db
    ]_vars

\* a user who has checked out has asked again, without adding items, and was
\* answered EmptyCart
C22_Witness ==
  \E r \in Reqs :
    /\ pc[r] = "respond" /\ outcome[r] = "EmptyCart"
    /\ mem[r].user \in carts
    /\ \E o \in DOMAIN orders : orders[o].user = mem[r].user /\ ItemsOf(o) # {}

\* C23: every CartItem row holds a quantity of at least 1 in every reachable
\* state, whatever adds, quantity updates and merges have run (also a merge
\* that clamps to a product whose inventory is 0), and a quantity update
\* with a quantity below 1 is answered ValidationError and leaves the item
\* as it was.
C23_CartItemQuantityAtLeastOne ==
  /\ [](emptyLines = {})
  /\ [][\A r \in Reqs :
          (pc[r] = "idle" /\ pc'[r] # "idle" /\ mem'[r].op = "set_quantity"
             /\ HasLine(mem'[r].user, mem'[r].cur.product)
             /\ ~AutoMerges(mem'[r].user)
             /\ mem'[r].cur.quantity < 1)
            => /\ outcome'[r] = "ValidationError"
               /\ cartItems' = cartItems
       ]_vars

\* the price C24 states for a product: the lower of price and sale price
\* when a sale price is set, the price when it is not
LowerPrice(prod) ==
  IF prod.sale_price # NULL THEN Min(prod.price, prod.sale_price) ELSE prod.price

\* C24: the unit price of every OrderItem, and the unit price behind the
\* cart subtotal an order stores, is min(price, sale_price) when the product
\* has a sale price and the price when it has none.
C24_EffectivePriceIsTheLowerOne ==
  /\ \A i \in orderItems : i.unit_price = LowerPrice(catalog[i.product])
  /\ \A o \in DOMAIN orders :
       orders[o].subtotal =
         SumTotalPrice({[product |-> i.product,
                         total_price |-> i.quantity * LowerPrice(catalog[i.product])] :
                           i \in ItemsOf(o)})

\* C25: in every reachable state an order whose status is DELIVERED has both
\* shipped_at and delivered_at set, whichever transitions led there: entry
\* to DELIVERED sets delivered_at and backfills a shipped_at never set.
C25_DeliveredOrderHasBothTimestamps ==
  \A o \in DOMAIN orders :
    orders[o].status = "DELIVERED"
      => orders[o].shipped_at # NULL /\ orders[o].delivered_at # NULL

\* an order was delivered without ever having been paid or shipped
C25_Witness ==
  \E r \in Reqs :
    /\ pc[r] = "respond" /\ outcome[r] = "Updated"
    /\ mem[r].new_status = "DELIVERED"
    /\ mem[r].row.shipped_at = NULL
    /\ orders[mem[r].order].status = "DELIVERED"
    /\ orders[mem[r].order].shipped_at # NULL

\* C26: a cart item removed by DELETE is out of the cart: it is not among
\* the cart's items (so not in the subtotal either), and a later checkout
\* creates no OrderItem for it.
C26_RemovedItemIsOutOfTheCart ==
  /\ [](\A l \in deletedLines :
          \A line \in CartLines(l[1]) : line.product # l[2])
  /\ [][\A r \in Reqs :
          (pc[r] = "check_line" /\ pc'[r] = "save_product")
            => <<mem[r].user, mem'[r].cur.product>> \notin deletedLines
       ]_vars

\* C27: the quantity of an order item is given back to the inventory at most
\* once, whatever cancels of the order (two at the same time included) and
\* deletions of its items while it is PENDING or CANCELLED take place.  With
\* one order, whose items are the only stock ever reserved, this is: no
\* product ever has more stock than it started with.
C27_ItemReleasedAtMostOnce ==
  \A p \in Products : inventory[p] <= inventory0[p]

\* the stock of product p held by orders that are not cancelled
ReservedQuantity(p) ==
  SumQuantity({i \in orderItems : i.product = p /\ orders[i.order].status # "CANCELLED"})

\* C28: whenever no request is under way, for each product the inventory plus
\* the quantity of its order items in orders that are not CANCELLED equals the
\* initial inventory: an order that becomes CANCELLED, by cancel_order or by
\* update_order_status, has given its quantities back, and an order that
\* leaves CANCELLED has reserved them again.
C28_StockIsConserved ==
  (\A r \in Reqs : pc[r] = "idle")
    => \A p \in Products : inventory[p] + ReservedQuantity(p) = inventory0[p]

\* C29: the contents of a cart become at most one order: of two checkouts of
\* the same user's cart running at the same time at most one creates an order,
\* and each product's inventory goes down by the line's quantity at most once.
C29_CartBecomesAtMostOneOrder ==
  /\ \A i, j \in orderItems : i.product = j.product => i.order = j.order
  /\ \A p \in Products :
        /\ inventory[p] <= inventory0[p]
        /\ \A i \in orderItems :
              i.product = p => inventory0[p] - inventory[p] <= i.quantity
        /\ (\A i \in orderItems : i.product # p) => inventory[p] = inventory0[p]

CancelPcs == {"cancel_items", "cancel_read", "cancel_save_product", "cancel_save"}

\* C30: a cancel changes only product inventory and the order's status and
\* internal notes: every step of a cancel request leaves the earnings rows,
\* the order items, the carts, the other orders and, of the cancelled order,
\* everything but status and internal_notes (the amounts and the paid_at,
\* shipped_at and delivered_at stamps included) as they were; the earnings of
\* a cancelled PAID order therefore stay available.
C30_CancelChangesOnlyStockStatusAndNotes ==
  [][\A r \in Reqs :
       ((pc[r] = "idle" /\ mem'[r].op = "cancel" /\ pc'[r] # "idle")
          \/ (pc[r] \in CancelPcs /\ pc'[r] # pc[r]))
       => /\ earnings' = earnings
          /\ orderItems' = orderItems
          /\ carts' = carts /\ cartItems' = cartItems
          /\ DOMAIN orders' = DOMAIN orders
          /\ \A o \in DOMAIN orders :
                orders'[o] = IF o = mem'[r].order /\ pc[r] = "cancel_save"
                             THEN [orders[o] EXCEPT
                                     !.status = "CANCELLED",
                                     !.internal_notes = orders'[o].internal_notes]
                             ELSE orders[o]
          /\ pc[r] # "cancel_save_product" => inventory' = inventory]_vars

\* a PAID order whose earnings are available has just been cancelled, and the
\* earnings are available still
C30_Witness ==
  \E r \in Reqs :
    /\ pc[r] = "respond" /\ outcome[r] = "Cancelled"
    /\ mem[r].row.status = "PAID"
    /\ orders[mem[r].order].status = "CANCELLED"
    /\ orders[mem[r].order].paid_at # NULL
    /\ EarningsOf(mem[r].order) # {}
    /\ \A e \in EarningsOf(mem[r].order) : e.status = "available"

====
